---- MODULE Spec2Model ----
(***************************************************************************)
(* Request-orchestration core of promptEngeneering_tool1:                  *)
(*   IntelligentCache  (src/utils/IntelligentCache.ts, lines 1-294)        *)
(*   RateLimiter       (src/utils/Logger.ts, lines 180-434)                *)
(*   ApiKeyManager     (src/services/ApiService.ts, lines 549-1059)        *)
(* Each component has its own specification (SpecCache, SpecRL, SpecKeys); *)
(* the variables of the other components stay at their initial values.     *)
(* Date.now() is the variable now; it has millisecond resolution in the    *)
(* program, so several calls can observe the same value of now.            *)
(* Write-only statistics (hits, misses, evictions, accessCount,            *)
(* totalRequests, firstRequest, requestCount, lastUsed) are left out.      *)
(***************************************************************************)
EXTENDS Integers, Sequences, FiniteSets, TLC

VARIABLES
  now,          \* Date.now()
  cache,        \* IntelligentCache.cache: entries in Map insertion order
  currentSize,  \* IntelligentCache.currentSize
  cret,         \* the last cache call: operation, key, result, keys evicted,
                \* and whether it purged an expired entry
  written,      \* history: per key the value and time of the last set,
                \* None once that entry has been removed
  recency,      \* history: the stored keys in the order of their last use
                \* by get/set, least recently used first
  userLimits,   \* RateLimiter.userLimits: per identity requests and blockUntil
  rret,         \* the last rate-limiter step: operation, identity, result
  recent,       \* history: per identity the times of the accepted requests
                \* of the trailing window since the last override
  lastRecorded, \* history: per identity the time of the last accepted
                \* request since the last override, 0 when there is none
  run,          \* history: per identity the recordRequest calls made since
                \* it had no state, while no other call was made for it
  keys,         \* ApiKeyManager.keys: the pool in position order
  currentIndex, \* ApiKeyManager.currentIndex: the rotation cursor
  kret,         \* the last direct key-manager call: operation and, for
                \* getCurrentKey, the key index returned (-1: none)
  errorsRecorded, \* number of direct recordError calls made so far
  streak,       \* history: the indices returned by the latest consecutive
                \* getCurrentKey calls that found every key available, with
                \* no recordError in between (at most the last 2 * NumKeys)
  partial,      \* history: the key skipped and the indices returned by the
                \* latest consecutive getCurrentKey calls that found exactly
                \* one key quota-exhausted and every other key available
  quotaAt,      \* history: per watched key index the time of the last quota
                \* error recorded on it whose cooldown is still running and
                \* that no recordSuccess or emergency reset has followed
                \* (0: none)
  queue,        \* RequestQueue.queue: the pending requests, head first
  inflight,     \* the requests shifted off the queue whose processor is awaited
  processInterval, \* RequestQueue.processInterval is set (the timer runs)
  tasks,        \* history: per request id its priority, where it is, how its
                \* promise was settled, how often its processor was invoked
                \* and how often resolve or reject was called
  anyFailed,    \* history: some processor has rejected
  calls,        \* the makeRequestWithRetry calls: per call its position, its
                \* locals attempt and triedKeys, the key in use, the error it
                \* rejected with, and history of what it met
  proc,         \* per queued request the closure of its processor (prompt,
                \* service, userId, cacheKey), how far processImageGeneration
                \* has come, and its imageData
  gret,         \* the last generateImage call: its arguments, whether it was
                \* rate-limited, a cache hit or queued, and what a hit returned
  genCalls,     \* history: number of generateImage calls made
  hitPairs,     \* history: the prompt and userId of the calls that returned
                \* a cached result
  classified,   \* the last isQuotaError call: the error and the verdict
  optimized     \* the last optimizeImage call: its argument, the step that
                \* failed in it, and how its promise settled

cacheVars == <<cache, currentSize, cret, written, recency>>

rlVars == <<userLimits, rret, recent, lastRecorded, run>>

keyVars == <<keys, currentIndex, kret, errorsRecorded, streak, partial, quotaAt>>

retryVars == <<calls>>

queueVars == <<queue, inflight, processInterval, tasks, anyFailed>>

\* the variables of the components built on the cache, the rate limiter and
\* the key manager
genVars == <<proc, gret, genCalls, hitPairs>>

\* the functions modelled on their own
pureVars == <<classified, optimized>>

restVars == <<retryVars, queueVars, genVars, pureVars>>

vars == <<now, cacheVars, rlVars, keyVars, restVars>>

(***************************************************************************)
(* Bounds                                                                  *)
(***************************************************************************)
CacheMaxTime == 3

RLMaxTime == 5

KeysMaxTime == 4
RetryNumKeys == 2
MaxTasks == 3
MaxLiveTasks == 2
GenMaxTime == 3

\* number of configured GEMINI_API_KEY_n slots
NumKeys == 3

\* recordError calls explored per behaviour
MaxRecordedErrors == 3

(***************************************************************************)
(* Time                                                                    *)
(***************************************************************************)
CacheTick ==
  /\ now < CacheMaxTime
  /\ now' = now + 1
  /\ UNCHANGED <<cacheVars, rlVars, keyVars, restVars>>

(***************************************************************************)
(* IntelligentCache                                                        *)
(***************************************************************************)
Keys == {"A", "B", "C", "D"}

Values == {"x", "yyyy"}

\* the values the cache is given directly: those, and one whose size is above
\* maxSize on its own
CacheValues == Values \cup {"zzzzzzzzz"}

Null == "null"

None == [none |-> TRUE]

\* maxSizeMB * 1024 * 1024, scaled down to a few bytes
maxSize == 10

maxEntries == 3

\* ttlMinutes * 60 * 1000, scaled down to a few ticks
ttlMs == 1

\* new Blob([JSON.stringify(value)]).size: the string and its two quotes
calculateSize(value) == Len(value) + 2

RECURSIVE SumSizes(_)
SumSizes(c) == IF c = <<>> THEN 0 ELSE Head(c).size + SumSizes(Tail(c))

KeysOf(c) == {c[i].key : i \in 1..Len(c)}

\* position of key k in the Map, 0 when absent
IndexOf(c, k) ==
  IF k \in KeysOf(c) THEN CHOOSE i \in 1..Len(c) : c[i].key = k ELSE 0

RemoveAt(c, i) == SubSeq(c, 1, i - 1) \o SubSeq(c, i + 1, Len(c))

Expired_Lenient(e, t) == t - e.timestamp > ttlMs + 1

Expired_Early(e, t) == t - e.timestamp >= ttlMs

Expired(e, t) == t - e.timestamp > ttlMs

\* the scan of evictLeastRecentlyUsed: the first entry in Map order whose
\* lastAccessed is strictly below that of every entry before it and not
\* above that of any entry after it
OldestIndex(c) ==
  CHOOSE i \in 1..Len(c) :
    /\ \A j \in 1..Len(c) : c[i].lastAccessed <= c[j].lastAccessed
    /\ \A j \in 1..(i - 1) : c[i].lastAccessed < c[j].lastAccessed

evictLeastRecentlyUsed_KeepsSize(st) ==
  IF st.cache = <<>> THEN st
  ELSE LET i == OldestIndex(st.cache) IN
       [cache   |-> RemoveAt(st.cache, i),
        size    |-> st.size,
        evicted |-> Append(st.evicted, st.cache[i].key)]

\* st = [cache, size, evicted]; evicted lists the keys in eviction order.
\* The guard "if (oldestKey && oldestEntry)" only fails on an empty Map: the
\* keys of the model are non-empty strings, as those of generateKey are.
evictLeastRecentlyUsed(st) ==
  IF st.cache = <<>> THEN st
  ELSE LET i == OldestIndex(st.cache) IN
       [cache   |-> RemoveAt(st.cache, i),
        size    |-> st.size - st.cache[i].size,
        evicted |-> Append(st.evicted, st.cache[i].key)]

RECURSIVE makeSpaceBySize(_, _)
makeSpaceBySize(st, requiredSize) ==
  IF st.size + requiredSize > maxSize /\ Len(st.cache) > 0
  THEN makeSpaceBySize(evictLeastRecentlyUsed(st), requiredSize)
  ELSE st

RECURSIVE makeSpaceByCount(_)
makeSpaceByCount(st) ==
  IF Len(st.cache) >= maxEntries
  THEN makeSpaceByCount(evictLeastRecentlyUsed(st))
  ELSE st

makeSpace(st, requiredSize) == makeSpaceByCount(makeSpaceBySize(st, requiredSize))

\* history bookkeeping shared by the cache actions: an entry that was
\* stored before the call and is not stored after it has been removed
MarkRemoved(w, before, after) ==
  [k \in Keys |->
     IF k \in KeysOf(before) /\ k \notin KeysOf(after) THEN None ELSE w[k]]

Touch(r, k) == SelectSeq(r, LAMBDA x : x # k) \o <<k>>

Forget(r, after) == SelectSeq(r, LAMBDA x : x \in KeysOf(after))

StoreEntry(c, entry) ==
  LET i == IndexOf(c, entry.key) IN
  IF i = 0 THEN Append(c, entry) ELSE [c EXCEPT ![i] = entry]

\* set: the Map and currentSize after the call, and the keys it evicted
set(c, total, k, v, t) ==
  LET size  == calculateSize(v)
      st    == makeSpace([cache |-> c, size |-> total, evicted |-> <<>>, purged |-> FALSE], size)
      entry == [key |-> k, value |-> v, timestamp |-> t,
                lastAccessed |-> t, size |-> size]
      i     == IndexOf(st.cache, k)
      sub   == IF i = 0 THEN 0 ELSE st.cache[i].size
  IN [cache |-> StoreEntry(st.cache, entry), size |-> st.size - sub + size,
      evicted |-> st.evicted]

get_AlwaysMiss(c, total, k, t) ==
  [cache |-> c, size |-> total, val |-> Null, purged |-> FALSE]

\* get: the Map and currentSize after the call, the value returned (Null for
\* null) and whether an expired entry was deleted
get(c, total, k, t) ==
  LET i == IndexOf(c, k) IN
  IF i = 0
  THEN [cache |-> c, size |-> total, val |-> Null, purged |-> FALSE]
  ELSE IF Expired(c[i], t)
  THEN [cache |-> RemoveAt(c, i), size |-> total - c[i].size, val |-> Null,
        purged |-> TRUE]
  ELSE [cache |-> [c EXCEPT ![i].lastAccessed = t], size |-> total,
        val |-> c[i].value, purged |-> FALSE]

CacheSet(k, v) ==
  LET r == set(cache, currentSize, k, v, now) IN
  /\ cache' = r.cache
  /\ currentSize' = r.size
  /\ cret' = [op |-> "set", key |-> k, val |-> Null, evicted |-> r.evicted, purged |-> FALSE]
  /\ written' = [MarkRemoved(written, cache, cache') EXCEPT
                   ![k] = [val |-> v, time |-> now]]
  /\ recency' = Touch(Forget(recency, cache'), k)
  /\ UNCHANGED <<now, rlVars, keyVars, restVars>>

CacheGet(k) ==
  LET r == get(cache, currentSize, k, now) IN
  /\ cache' = r.cache
  /\ currentSize' = r.size
  /\ cret' = [op |-> "get", key |-> k, val |-> r.val, evicted |-> <<>>, purged |-> r.purged]
  /\ recency' = IF r.val # Null THEN Touch(recency, k) ELSE Forget(recency, cache')
  /\ written' = MarkRemoved(written, cache, cache')
  /\ UNCHANGED <<now, rlVars, keyVars, restVars>>

CacheHas(k) ==
  LET i == IndexOf(cache, k) IN
  /\ IF i = 0
     THEN /\ cret' = [op |-> "has", key |-> k, val |-> "false", evicted |-> <<>>, purged |-> FALSE]
          /\ UNCHANGED <<cache, currentSize>>
     ELSE IF Expired(cache[i], now)
     THEN /\ cache' = RemoveAt(cache, i)
          /\ currentSize' = currentSize - cache[i].size
          /\ cret' = [op |-> "has", key |-> k, val |-> "false", evicted |-> <<>>, purged |-> TRUE]
     ELSE /\ cret' = [op |-> "has", key |-> k, val |-> "true", evicted |-> <<>>, purged |-> FALSE]
          /\ UNCHANGED <<cache, currentSize>>
  /\ written' = MarkRemoved(written, cache, cache')
  /\ recency' = Forget(recency, cache')
  /\ UNCHANGED <<now, rlVars, keyVars, restVars>>

CacheDelete(k) ==
  LET i == IndexOf(cache, k) IN
  /\ IF i # 0
     THEN /\ cache' = RemoveAt(cache, i)
          /\ currentSize' = currentSize - cache[i].size
          /\ cret' = [op |-> "delete", key |-> Null, val |-> Null, evicted |-> <<>>, purged |-> FALSE]
     ELSE /\ cret' = [op |-> "delete", key |-> Null, val |-> Null, evicted |-> <<>>, purged |-> FALSE]
          /\ UNCHANGED <<cache, currentSize>>
  /\ written' = MarkRemoved(written, cache, cache')
  /\ recency' = Forget(recency, cache')
  /\ UNCHANGED <<now, rlVars, keyVars, restVars>>

CacheClear ==
  /\ cache' = <<>>
  /\ currentSize' = 0
  /\ cret' = [op |-> "clear", key |-> Null, val |-> Null, evicted |-> <<>>, purged |-> FALSE]
  /\ written' = MarkRemoved(written, cache, cache')
  /\ recency' = Forget(recency, cache')
  /\ UNCHANGED <<now, rlVars, keyVars, restVars>>

\* the setInterval sweep of the constructor
CacheCleanup ==
  /\ cache' = SelectSeq(cache, LAMBDA e : ~Expired(e, now))
  /\ currentSize' = currentSize - SumSizes(SelectSeq(cache, LAMBDA e : Expired(e, now)))
  /\ cret' = [op |-> "cleanup", key |-> Null, val |-> Null, evicted |-> <<>>, purged |-> FALSE]
  /\ written' = MarkRemoved(written, cache, cache')
  /\ recency' = Forget(recency, cache')
  /\ UNCHANGED <<now, rlVars, keyVars, restVars>>

(***************************************************************************)
(* RateLimiter                                                             *)
(***************************************************************************)
Users == {"u1", "u2"}

maxRequests == 2

\* 60 * 1000, scaled down to a few ticks
windowMs == 2

\* 60 * 1000, scaled down to a few ticks
blockDurationMs == 2

\* 60 * 60 * 1000 in cleanup, scaled down to a few ticks
retentionMs == 3

\* blockUntil = 0 stands for the absent (undefined) field
userData(requests, blockUntil) == [requests |-> requests, blockUntil |-> blockUntil]

getUserData(ul, u) ==
  IF ul[u] = None THEN [ul EXCEPT ![u] = userData(<<>>, 0)] ELSE ul

InWindow(requests, t) == SelectSeq(requests, LAMBDA ts : ts > t - windowMs)

checkLimit_ShortBlock(ul, u, t) ==
  LET ul1 == getUserData(ul, u)
      d   == ul1[u]
      pruned == InWindow(d.requests, t)
  IN
  IF d.blockUntil # 0 /\ t < d.blockUntil
  THEN [limits |-> ul1, blocked |-> TRUE, blockUntil |-> d.blockUntil, remaining |-> 0]
  ELSE IF Len(pruned) >= maxRequests
  THEN [limits |-> [ul1 EXCEPT ![u] = userData(pruned, t + blockDurationMs - 1)],
        blocked |-> TRUE, blockUntil |-> t + blockDurationMs - 1, remaining |-> 0]
  ELSE [limits |-> [ul1 EXCEPT ![u] = userData(pruned, d.blockUntil)],
        blocked |-> FALSE, blockUntil |-> 0, remaining |-> maxRequests - Len(pruned)]

checkLimit_LateBlock(ul, u, t) ==
  LET ul1 == getUserData(ul, u)
      d   == ul1[u]
      pruned == InWindow(d.requests, t)
  IN
  IF d.blockUntil # 0 /\ t < d.blockUntil
  THEN [limits |-> ul1, blocked |-> TRUE, blockUntil |-> d.blockUntil, remaining |-> 0]
  ELSE IF Len(pruned) > maxRequests
  THEN [limits |-> [ul1 EXCEPT ![u] = userData(pruned, t + blockDurationMs)],
        blocked |-> TRUE, blockUntil |-> t + blockDurationMs, remaining |-> 0]
  ELSE [limits |-> [ul1 EXCEPT ![u] = userData(pruned, d.blockUntil)],
        blocked |-> FALSE, blockUntil |-> 0, remaining |-> maxRequests - Len(pruned)]

checkLimit_Extends(ul, u, t) ==
  LET ul1 == getUserData(ul, u)
      d   == ul1[u]
      pruned == InWindow(d.requests, t)
  IN
  IF d.blockUntil # 0 /\ t < d.blockUntil
  THEN [limits |-> [ul1 EXCEPT ![u].blockUntil = t + blockDurationMs],
        blocked |-> TRUE, blockUntil |-> t + blockDurationMs, remaining |-> 0]
  ELSE IF Len(pruned) >= maxRequests
  THEN [limits |-> [ul1 EXCEPT ![u] = userData(pruned, t + blockDurationMs)],
        blocked |-> TRUE, blockUntil |-> t + blockDurationMs, remaining |-> 0]
  ELSE [limits |-> [ul1 EXCEPT ![u] = userData(pruned, d.blockUntil)],
        blocked |-> FALSE, blockUntil |-> 0, remaining |-> maxRequests - Len(pruned)]

checkLimit_EagerBlock(ul, u, t) ==
  LET ul1 == getUserData(ul, u)
      d   == ul1[u]
      pruned == InWindow(d.requests, t)
  IN
  IF d.blockUntil # 0 /\ t < d.blockUntil
  THEN [limits |-> ul1, blocked |-> TRUE, blockUntil |-> d.blockUntil, remaining |-> 0]
  ELSE IF Len(pruned) + 1 >= maxRequests
  THEN [limits |-> [ul1 EXCEPT ![u] = userData(pruned, t + blockDurationMs)],
        blocked |-> TRUE, blockUntil |-> t + blockDurationMs, remaining |-> 0]
  ELSE [limits |-> [ul1 EXCEPT ![u] = userData(pruned, d.blockUntil)],
        blocked |-> FALSE, blockUntil |-> 0, remaining |-> maxRequests - Len(pruned)]

checkLimit_NeverBlocks(ul, u, t) ==
  LET ul1 == getUserData(ul, u)
      d   == ul1[u]
      pruned == InWindow(d.requests, t)
  IN [limits |-> [ul1 EXCEPT ![u] = userData(pruned, d.blockUntil)],
      blocked |-> FALSE, blockUntil |-> 0, remaining |-> maxRequests - Len(pruned)]

\* the new userLimits and the RateLimitInfo returned
checkLimit(ul, u, t) ==
  LET ul1 == getUserData(ul, u)
      d   == ul1[u]
      pruned == InWindow(d.requests, t)
  IN
  IF d.blockUntil # 0 /\ t < d.blockUntil
  THEN [limits |-> ul1, blocked |-> TRUE, blockUntil |-> d.blockUntil, remaining |-> 0]
  ELSE IF Len(pruned) >= maxRequests
  THEN [limits |-> [ul1 EXCEPT ![u] = userData(pruned, t + blockDurationMs)],
        blocked |-> TRUE, blockUntil |-> t + blockDurationMs, remaining |-> 0]
  ELSE [limits |-> [ul1 EXCEPT ![u] = userData(pruned, d.blockUntil)],
        blocked |-> FALSE, blockUntil |-> 0, remaining |-> maxRequests - Len(pruned)]

RLRet(op, u, blocked, blockUntil, ok) ==
  [op |-> op, user |-> u, blocked |-> blocked, blockUntil |-> blockUntil, ok |-> ok]

FreshRun == [calls |-> <<>>, clean |-> TRUE]

BrokenRun == [calls |-> <<>>, clean |-> FALSE]

\* checkLimit and getStatus
CheckLimit(u) ==
  LET r == checkLimit(userLimits, u, now) IN
  /\ userLimits' = r.limits
  /\ rret' = RLRet("checkLimit", u, r.blocked, r.blockUntil, ~r.blocked)
  /\ run' = [run EXCEPT ![u] =
               IF Len(@.calls) \in 1..maxRequests THEN BrokenRun ELSE @]
  /\ UNCHANGED <<now, cacheVars, keyVars, recent, lastRecorded, restVars>>

recordRequest_AddsNone(ul, u, t) ==
  LET r == checkLimit(ul, u, t) IN
  [limits |-> r.limits, ok |-> ~r.blocked]

\* recordRequest: the new userLimits and the boolean returned
recordRequest(ul, u, t) ==
  LET r == checkLimit(ul, u, t) IN
  [limits |-> IF r.blocked THEN r.limits
              ELSE [r.limits EXCEPT ![u].requests = Append(@, t)],
   ok |-> ~r.blocked]

RecordRequest(u) ==
  LET r == checkLimit(userLimits, u, now) IN
  /\ userLimits' = recordRequest(userLimits, u, now).limits
  /\ rret' = RLRet("recordRequest", u, r.blocked, r.blockUntil, ~r.blocked)
  /\ recent' = IF r.blocked THEN recent ELSE [recent EXCEPT ![u] = Append(@, now)]
  /\ lastRecorded' = IF r.blocked THEN lastRecorded ELSE [lastRecorded EXCEPT ![u] = now]
  /\ run' = [run EXCEPT ![u] =
               IF @.clean /\ Len(@.calls) <= maxRequests
               THEN [@ EXCEPT !.calls = Append(@, [t |-> now, ok |-> ~r.blocked])]
               ELSE @]
  /\ UNCHANGED <<now, cacheVars, keyVars, restVars>>

CleanupRemoves(d, t) ==
  LET inactive     == d.requests = <<>> \/ t - d.requests[Len(d.requests)] > retentionMs
      blockExpired == d.blockUntil = 0 \/ t > d.blockUntil
  IN inactive /\ blockExpired

\* the setInterval sweep of the constructor
RLCleanup ==
  /\ userLimits' =
       [u \in Users |->
          IF userLimits[u] = None THEN None
          ELSE IF CleanupRemoves(userLimits[u], now) THEN None
          ELSE IF userLimits[u].blockUntil # 0 /\ now > userLimits[u].blockUntil
          THEN [userLimits[u] EXCEPT !.blockUntil = 0]
          ELSE userLimits[u]]
  /\ rret' = RLRet("cleanup", Null, FALSE, 0, TRUE)
  /\ run' = [u \in Users |->
               IF userLimits[u] # None /\ userLimits'[u] = None THEN FreshRun ELSE run[u]]
  /\ UNCHANGED <<now, cacheVars, keyVars, recent, lastRecorded, restVars>>

ResetUser(u) ==
  /\ userLimits' = [userLimits EXCEPT ![u] = None]
  /\ rret' = RLRet("resetUser", u, FALSE, 0, TRUE)
  /\ recent' = [recent EXCEPT ![u] = <<>>]
  /\ lastRecorded' = [lastRecorded EXCEPT ![u] = 0]
  /\ run' = [run EXCEPT ![u] = FreshRun]
  /\ UNCHANGED <<now, cacheVars, keyVars, restVars>>

BypassLimit(u) ==
  /\ userLimits' = [userLimits EXCEPT ![u] = userData(<<>>, 0)]
  /\ rret' = RLRet("bypassLimit", u, FALSE, 0, TRUE)
  /\ recent' = [recent EXCEPT ![u] = <<>>]
  /\ lastRecorded' = [lastRecorded EXCEPT ![u] = 0]
  /\ run' = [run EXCEPT ![u] = IF @.calls = <<>> THEN @ ELSE BrokenRun]
  /\ UNCHANGED <<now, cacheVars, keyVars, restVars>>

RLTick ==
  /\ now < RLMaxTime
  /\ now' = now + 1
  /\ rret' = RLRet("tick", Null, FALSE, 0, TRUE)
  /\ recent' = [u \in Users |-> InWindow(recent[u], now')]
  /\ UNCHANGED <<cacheVars, keyVars, userLimits, lastRecorded, run, restVars>>

InitRL ==
  /\ userLimits = [u \in Users |-> None]
  /\ rret = RLRet("new", Null, FALSE, 0, TRUE)
  /\ recent = [u \in Users |-> <<>>]
  /\ lastRecorded = [u \in Users |-> 0]
  /\ run = [u \in Users |-> FreshRun]

RLNext ==
  \/ \E u \in Users : CheckLimit(u)
  \/ \E u \in Users : RecordRequest(u)
  \/ RLCleanup
  \/ \E u \in Users : ResetUser(u)
  \/ \E u \in Users : BypassLimit(u)
  \/ RLTick

(***************************************************************************)
(* ApiKeyManager                                                           *)
(***************************************************************************)
\* scaled down from 3
maxErrors == 1

\* 60 * 60 * 1000, scaled down to a few ticks
quotaCooldown == 3

\* 30 * 1000 after a non-quota error, scaled down
serverErrorCooldown == 1

\* 5 * 60 * 1000 after reaching the error threshold, scaled down
disabledCooldown == 2

initializeKeys(n) ==
  [i \in 1..n |->
     [index |-> i - 1, isActive |-> TRUE, errorCount |-> 0,
      quotaExhausted |-> FALSE, nextAvailableTime |-> 0]]

KeyAvailable_IgnoresQuota(key, t) ==
  key.isActive /\ (key.quotaExhausted \/ t >= key.nextAvailableTime)

KeyAvailable(key, t) ==
  key.isActive /\ ~key.quotaExhausted /\ t >= key.nextAvailableTime

recoverKey_KeepsQuota(key, t) ==
  IF ~key.isActive /\ ~key.quotaExhausted /\ t >= key.nextAvailableTime
  THEN [key EXCEPT !.isActive = TRUE, !.errorCount = 0]
  ELSE key

\* the forEach at the head of getCurrentKey, for one key
recoverKey(key, t) ==
  LET k1 == IF key.quotaExhausted /\ t >= key.nextAvailableTime
            THEN [key EXCEPT !.quotaExhausted = FALSE, !.errorCount = 0, !.isActive = TRUE]
            ELSE key
  IN IF ~k1.isActive /\ ~k1.quotaExhausted /\ t >= k1.nextAvailableTime
     THEN [k1 EXCEPT !.isActive = TRUE, !.errorCount = 0]
     ELSE k1

RECURSIVE scanKeys_ShortScan(_, _, _, _)
scanKeys_ShortScan(ks, idx, attempts, t) ==
  IF attempts >= Len(ks) - 1 THEN [found |-> -1, index |-> idx]
  ELSE LET key == ks[idx + 1]
           nxt == (idx + 1) % Len(ks)
       IN IF key.isActive /\ ~key.quotaExhausted /\ t >= key.nextAvailableTime
          THEN [found |-> key.index, index |-> nxt]
          ELSE scanKeys_ShortScan(ks, nxt, attempts + 1, t)

scanKeys_FirstAvailable(ks, idx, attempts, t) ==
  IF \E i \in 1..Len(ks) : KeyAvailable(ks[i], t)
  THEN LET i == CHOOSE i \in 1..Len(ks) :
                  /\ KeyAvailable(ks[i], t)
                  /\ \A j \in 1..(i - 1) : ~KeyAvailable(ks[j], t)
       IN [found |-> ks[i].index, index |-> i % Len(ks)]
  ELSE [found |-> -1, index |-> idx]

\* the while loop of getCurrentKey: the key found (-1: none) and the cursor
RECURSIVE scanKeys(_, _, _, _)
scanKeys(ks, idx, attempts, t) ==
  IF attempts >= Len(ks) THEN [found |-> -1, index |-> idx]
  ELSE LET key == ks[idx + 1]
           nxt == (idx + 1) % Len(ks)
       IN IF KeyAvailable(key, t)
          THEN [found |-> key.index, index |-> nxt]
          ELSE scanKeys(ks, nxt, attempts + 1, t)

PositionOf(ks, keyIndex) ==
  IF \E i \in 1..Len(ks) : ks[i].index = keyIndex
  THEN CHOOSE i \in 1..Len(ks) : ks[i].index = keyIndex
  ELSE 0

LastOf(q, n) == IF Len(q) > n THEN SubSeq(q, Len(q) - n + 1, Len(q)) ELSE q

\* history: the index of the one key that is quota-exhausted with its
\* cooldown still running while every other key is available (-1: no such key)
OnlyExhausted(ks, t) ==
  LET ex == {i \in 1..Len(ks) : ks[i].quotaExhausted /\ t < ks[i].nextAvailableTime}
      ok == {i \in 1..Len(ks) : ks[i].isActive /\ ~ks[i].quotaExhausted
                                               /\ t >= ks[i].nextAvailableTime}
  IN IF Cardinality(ex) = 1 /\ Cardinality(ok) = Len(ks) - 1
     THEN ks[CHOOSE i \in ex : TRUE].index
     ELSE -1

NoPartial == [skipped |-> -1, picks |-> <<>>]

\* getCurrentKey: the swept pool, the cursor and the key found (-1: none)
getCurrentKey(ks, idx, t) ==
  LET recovered == [i \in 1..Len(ks) |-> recoverKey(ks[i], t)]
      r         == scanKeys(recovered, idx, 0, t)
  IN [keys |-> recovered, index |-> r.index, found |-> r.found]

GetCurrentKey ==
  LET r == getCurrentKey(keys, currentIndex, now) IN
  /\ keys' = r.keys
  /\ currentIndex' = r.index
  /\ kret' = [op |-> "getCurrentKey", key |-> r.found]
  /\ streak' = IF \A i \in 1..Len(keys) : KeyAvailable(keys[i], now)
               THEN LastOf(Append(streak, r.found), 2 * NumKeys)
               ELSE <<>>
  /\ partial' = LET e == OnlyExhausted(keys, now) IN
                IF e = -1 THEN NoPartial
                ELSE [skipped |-> e,
                      picks   |-> LastOf(Append(IF partial.skipped = e
                                                THEN partial.picks ELSE <<>>,
                                                r.found), 2 * (NumKeys - 1))]
  /\ quotaAt' = [i \in DOMAIN quotaAt |->
                  IF now >= quotaAt[i] + quotaCooldown THEN 0 ELSE quotaAt[i]]
  /\ UNCHANGED <<now, cacheVars, rlVars, errorsRecorded, restVars>>

\* recordError: the pool after an error on the key with that index
recordError(ks, keyIndex, isQuotaError, t) ==
  LET p  == PositionOf(ks, keyIndex)
      k0 == [ks[p] EXCEPT !.errorCount = @ + 1]
      k1 == IF isQuotaError
            THEN [k0 EXCEPT !.quotaExhausted = TRUE,
                            !.nextAvailableTime = t + quotaCooldown]
            ELSE [k0 EXCEPT !.nextAvailableTime = t + serverErrorCooldown]
      k2 == IF k1.errorCount >= maxErrors * 2
            THEN [k1 EXCEPT !.isActive = FALSE,
                            !.nextAvailableTime = t + disabledCooldown]
            ELSE k1
  IN IF p = 0 THEN ks ELSE [ks EXCEPT ![p] = k2]

\* recordSuccess: the pool after a success on the key with that index
recordSuccess(ks, keyIndex) ==
  LET p == PositionOf(ks, keyIndex) IN
  IF p = 0 THEN ks
  ELSE [ks EXCEPT ![p] = [@ EXCEPT !.errorCount = 0, !.nextAvailableTime = 0]]

RecordError(keyIndex, isQuotaError) ==
  /\ errorsRecorded < MaxRecordedErrors
  /\ PositionOf(keys, keyIndex) # 0
  /\ keys' = recordError(keys, keyIndex, isQuotaError, now)
  /\ kret' = [op |-> "recordError", key |-> -1]
  /\ errorsRecorded' = errorsRecorded + 1
  /\ streak' = <<>>
  /\ partial' = NoPartial
  /\ quotaAt' = IF isQuotaError /\ keyIndex \in DOMAIN quotaAt
                THEN [quotaAt EXCEPT ![keyIndex] = now] ELSE quotaAt
  /\ UNCHANGED <<now, cacheVars, rlVars, currentIndex, restVars>>

RecordSuccess(keyIndex) ==
  /\ PositionOf(keys, keyIndex) # 0
  /\ keys' = recordSuccess(keys, keyIndex)
  /\ kret' = [op |-> "recordSuccess", key |-> -1]
  /\ quotaAt' = [i \in DOMAIN quotaAt |-> IF i = keyIndex THEN 0 ELSE quotaAt[i]]
  /\ UNCHANGED <<now, cacheVars, rlVars, currentIndex, errorsRecorded, streak, partial, restVars>>

EmergencyResetAllKeys ==
  /\ keys' = [i \in 1..Len(keys) |->
                [keys[i] EXCEPT !.isActive = TRUE, !.quotaExhausted = FALSE,
                                !.errorCount = 0, !.nextAvailableTime = 0]]
  /\ kret' = [op |-> "emergencyResetAllKeys", key |-> -1]
  /\ quotaAt' = [i \in DOMAIN quotaAt |-> 0]
  /\ UNCHANGED <<now, cacheVars, rlVars, currentIndex, errorsRecorded, streak, partial, restVars>>

KeysTick ==
  /\ now < KeysMaxTime
  /\ now' = now + 1
  /\ kret' = [op |-> "tick", key |-> -1]
  /\ UNCHANGED <<cacheVars, rlVars, keys, currentIndex, errorsRecorded, streak, partial, quotaAt, restVars>>

\* a pool of n keys; the history quotaAt is kept for the watched indices
InitKeysWatching(n, watched) ==
  /\ keys = initializeKeys(n)
  /\ currentIndex = 0
  /\ kret = [op |-> "new", key |-> -1]
  /\ errorsRecorded = 0
  /\ streak = <<>>
  /\ partial = NoPartial
  /\ quotaAt = [i \in watched |-> 0]

InitKeysWith(n) == InitKeysWatching(n, {})

InitKeys == InitKeysWith(NumKeys)

KeysNext ==
  \/ GetCurrentKey
  \/ \E i \in 0..(NumKeys - 1), q \in BOOLEAN : RecordError(i, q)
  \/ \E i \in 0..(NumKeys - 1) : RecordSuccess(i)
  \/ EmergencyResetAllKeys
  \/ KeysTick

\* The rotator when errors stop and time keeps advancing: recordError is
\* called only up to LiveMaxTime, and the clock then runs on for the longest
\* cooldown.
LiveMaxTime == serverErrorCooldown

RecordErrorInTime(keyIndex, isQuotaError) ==
  /\ now <= LiveMaxTime
  /\ RecordError(keyIndex, isQuotaError)

KeysLiveTick ==
  /\ now < LiveMaxTime + quotaCooldown
  /\ now' = now + 1
  /\ kret' = [op |-> "tick", key |-> -1]
  /\ UNCHANGED <<cacheVars, rlVars, keys, currentIndex, errorsRecorded, streak, partial, quotaAt, restVars>>

KeysLiveNext ==
  \/ GetCurrentKey
  \/ \E i \in 0..(NumKeys - 1), q \in BOOLEAN : RecordErrorInTime(i, q)
  \/ \E i \in 0..(NumKeys - 1) : RecordSuccess(i)
  \/ EmergencyResetAllKeys
  \/ KeysLiveTick

\* Runs of recordError calls with nothing between them but the clock: every
\* error reported on key 0 is a quota error, every error reported on key 1 is
\* a plain error, and the other keys receive either kind.
quotaRunKey == 0
plainRunKey == 1

ErrorRunsNext ==
  \/ RecordError(quotaRunKey, TRUE)
  \/ RecordError(plainRunKey, FALSE)
  \/ \E i \in 2..(NumKeys - 1), q \in BOOLEAN : RecordError(i, q)
  \/ KeysTick

(***************************************************************************)
(* ApiKeyManager.makeRequestWithRetry (src/services/ApiService.ts)         *)
(* A call runs in segments separated by its awaits: the request function   *)
(* and the sleeps. Several calls can be under way on the one key manager.  *)
(***************************************************************************)
Calls == {"c1", "c2"}

\* retryConfig.maxRetries (11 in the source, scaled down with the pool)
retryConfigMaxRetries == 5

\* a call lasts long enough for the cooldown of a server error to end (the
\* sleeps add up to more than 30 s), not for the longer ones
RetryMaxTime == 1 + serverErrorCooldown

Max(a, b) == IF a >= b THEN a ELSE b

maxAttempts_TooFew == Len(keys) - 1

maxAttempts == Max(Len(keys) * 2, retryConfigMaxRetries)

NoError == [kind |-> "none", tried |-> {}, statuses |-> FALSE]

\* a call not yet made; after the program fields, history: how often the
\* request function was invoked per key, whether every key was available
\* when the call started, whether every result so far was a quota error, and
\* whether no other call was under way during this one
FreshCall ==
  [pc |-> "idle", attempt |-> 0, triedKeys |-> {}, key |-> -1, error |-> NoError,
   invocations |-> [k \in 0..(Len(keys) - 1) |-> 0],
   allAvailable |-> FALSE, onlyQuota |-> TRUE, alone |-> TRUE]

UnderWay(rec) == rec.pc \in {"inflight", "sleeping"}

\* the final throw after the loop
FinalThrow(rec) ==
  [rec EXCEPT !.pc = "rejected", !.key = -1,
              !.error = [kind |-> "failed", tried |-> rec.triedKeys, statuses |-> FALSE]]

\* one pass of the loop body from its head up to the next await or throw
RetryLoop(c, cs, rec) ==
  IF rec.attempt >= maxAttempts
  THEN /\ calls' = [cs EXCEPT ![c] = FinalThrow(rec)]
       /\ UNCHANGED <<keys, currentIndex>>
  ELSE LET g == getCurrentKey(keys, currentIndex, now) IN
       /\ keys' = g.keys
       /\ currentIndex' = g.index
       /\ calls' = [cs EXCEPT ![c] =
            IF g.found = -1
            THEN IF Cardinality(rec.triedKeys) < Len(keys) \/ rec.attempt < maxAttempts - 1
                 THEN [rec EXCEPT !.pc = "sleeping", !.key = -1]
                 ELSE [rec EXCEPT !.pc = "rejected", !.key = -1,
                                  !.error = [kind |-> "exhausted",
                                             tried |-> rec.triedKeys,
                                             statuses |-> TRUE]]
            ELSE [rec EXCEPT !.pc = "inflight", !.key = g.found,
                             !.triedKeys = @ \cup {g.found},
                             !.invocations[g.found] = @ + 1]]

RetryStart(c) ==
  /\ calls[c].pc = "idle"
  /\ LET others == {d \in Calls \ {c} : UnderWay(calls[d])}
         cs == [d \in Calls |-> IF d \in others
                                 THEN [calls[d] EXCEPT !.alone = FALSE]
                                 ELSE calls[d]]
         rec == [FreshCall EXCEPT
                   !.alone = (others = {}),
                   !.allAvailable =
                     \A i \in 1..Len(keys) :
                        /\ keys[i].isActive
                        /\ ~keys[i].quotaExhausted
                        /\ now >= keys[i].nextAvailableTime]
     IN RetryLoop(c, cs, rec)
  /\ UNCHANGED <<now, cacheVars, rlVars, kret, errorsRecorded, streak, partial, quotaAt, queueVars, genVars, pureVars>>

RetryWake_KeepsAttempt(c) ==
  /\ calls[c].pc = "sleeping"
  /\ RetryLoop(c, calls, calls[c])
  /\ UNCHANGED <<now, cacheVars, rlVars, kret, errorsRecorded, streak, partial, quotaAt, queueVars, genVars, pureVars>>

\* the sleep of a waiting call ends
RetryWake(c) ==
  /\ calls[c].pc = "sleeping"
  /\ RetryLoop(c, calls, [calls[c] EXCEPT !.attempt = @ + 1])
  /\ UNCHANGED <<now, cacheVars, rlVars, kret, errorsRecorded, streak, partial, quotaAt, queueVars, genVars, pureVars>>

\* the request function resolves
RetryOpSucceeds(c) ==
  /\ calls[c].pc = "inflight"
  /\ keys' = recordSuccess(keys, calls[c].key)
  /\ calls' = [calls EXCEPT ![c] = [@ EXCEPT !.pc = "resolved", !.key = -1,
                                              !.onlyQuota = FALSE]]
  /\ UNCHANGED <<now, cacheVars, rlVars, currentIndex, kret, errorsRecorded, streak, partial, quotaAt, queueVars, genVars, pureVars>>

\* the request function rejects; isQuota is the verdict of isQuotaError
RetryOpFails(c, isQuota) ==
  /\ calls[c].pc = "inflight"
  /\ keys' = recordError(keys, calls[c].key, isQuota, now)
  /\ LET rec == [calls[c] EXCEPT !.key = -1, !.onlyQuota = @ /\ isQuota] IN
     calls' = [calls EXCEPT ![c] =
                 IF rec.attempt < maxAttempts - 1
                 THEN [rec EXCEPT !.pc = "sleeping"]
                 ELSE FinalThrow([rec EXCEPT !.attempt = @ + 1])]
  /\ UNCHANGED <<now, cacheVars, rlVars, currentIndex, kret, errorsRecorded, streak, partial, quotaAt, queueVars, genVars, pureVars>>

RetryTick ==
  /\ now < RetryMaxTime
  /\ now' = now + 1
  /\ UNCHANGED <<cacheVars, rlVars, keyVars, restVars>>

InitRetry ==
  calls = [c \in Calls |-> FreshCall]

RetryNext ==
  \/ \E c \in Calls : RetryStart(c)
  \/ \E c \in Calls : RetryWake(c)
  \/ \E c \in Calls : RetryOpSucceeds(c)
  \/ \E c \in Calls, q \in BOOLEAN : RetryOpFails(c, q)
  \/ RetryTick

(***************************************************************************)
(* RequestQueue (src/utils/IntelligentCache.ts)                            *)
(* The timer calls processNext every 20 ms whether or not an earlier       *)
(* processor is still awaited, so several requests can be in flight. The   *)
(* metrics and isProcessing are only reported and are left out.            *)
(***************************************************************************)
\* RequestQueue.maxRetries (3 in the source, scaled down)
maxRetries == 2

\* the priorities generateImage passes to enqueue: the default, and the one
\* of a gemini request
UserPriorities == {0, 10}

\* the priority enqueuePriority passes
adminPriority == 1000

TaskIds == 1..MaxTasks

NewTask ==
  [status |-> "new", priority |-> 0, error |-> "none", retries |-> 0,
   invoked |-> 0, settles |-> 0]

\* the id the next enqueue gives its request (uuidv4, here the arrival number)
NextId == Cardinality({i \in TaskIds : tasks[i].status # "new"}) + 1

findIndex_AlwaysPush(q, priority) == 0

\* queue.findIndex(req => req.priority < priority), 0 for -1
findIndex(q, priority) ==
  IF \E i \in 1..Len(q) : q[i].priority < priority
  THEN CHOOSE i \in 1..Len(q) :
         /\ q[i].priority < priority
         /\ \A j \in 1..(i - 1) : ~(q[j].priority < priority)
  ELSE 0

\* push, or splice(insertIndex, 0, request)
insertAt(q, i, request) ==
  IF i = 0 THEN Append(q, request)
  ELSE SubSeq(q, 1, i - 1) \o <<request>> \o SubSeq(q, i, Len(q))

\* request.resolve / request.reject: the first call settles the promise
settle(ts, id, status, error, retries) ==
  [ts EXCEPT ![id] =
     IF @.settles = 0
     THEN [@ EXCEPT !.status = status, !.error = error, !.retries = retries,
                    !.settles = 1]
     ELSE [@ EXCEPT !.settles = @ + 1]]

Enqueue(priority) ==
  LET id      == NextId
      request == [id |-> id, priority |-> priority, retryCount |-> 0]
  IN
  /\ id <= MaxTasks
  /\ queue' = insertAt(queue, findIndex(queue, priority), request)
  /\ tasks' = [tasks EXCEPT ![id] = [@ EXCEPT !.status = "pending",
                                              !.priority = priority]]
  /\ UNCHANGED <<now, cacheVars, rlVars, keyVars, retryVars, genVars, pureVars, inflight,
                 processInterval, anyFailed>>

EnqueuePriority == Enqueue(adminPriority)

\* a tick of the timer
ProcessNext ==
  /\ processInterval
  /\ IF queue = <<>>
     THEN UNCHANGED <<queue, inflight, tasks>>
     ELSE LET request == Head(queue) IN
          /\ queue' = Tail(queue)
          /\ inflight' = inflight \cup {request}
          /\ tasks' = [tasks EXCEPT ![request.id] =
                         [@ EXCEPT !.status = "inflight", !.invoked = @ + 1]]
  /\ UNCHANGED <<now, cacheVars, rlVars, keyVars, retryVars, genVars, pureVars, processInterval, anyFailed>>

\* the awaited processor resolves
ProcessorResolves(request) ==
  /\ request \in inflight
  /\ inflight' = inflight \ {request}
  /\ tasks' = settle(tasks, request.id, "resolved", "none", 0)
  /\ UNCHANGED <<now, cacheVars, rlVars, keyVars, retryVars, genVars, pureVars, queue,
                 processInterval, anyFailed>>

ProcessorRejects_RetriesOnceMore(request) ==
  /\ request \in inflight
  /\ inflight' = inflight \ {request}
  /\ anyFailed' = TRUE
  /\ IF request.retryCount <= maxRetries
     THEN /\ queue' = <<[request EXCEPT !.retryCount = @ + 1]>> \o queue
          /\ tasks' = [tasks EXCEPT ![request.id].status = "pending"]
     ELSE /\ tasks' = settle(tasks, request.id, "rejected", "retries", maxRetries)
          /\ UNCHANGED queue
  /\ UNCHANGED <<now, cacheVars, rlVars, keyVars, retryVars, genVars, pureVars, processInterval>>

ProcessorRejects_Drops(request) ==
  /\ request \in inflight
  /\ inflight' = inflight \ {request}
  /\ anyFailed' = TRUE
  /\ IF request.retryCount < maxRetries
     THEN /\ queue' = <<[request EXCEPT !.retryCount = @ + 1]>> \o queue
          /\ tasks' = [tasks EXCEPT ![request.id].status = "pending"]
     ELSE UNCHANGED <<tasks, queue>>
  /\ UNCHANGED <<now, cacheVars, rlVars, keyVars, retryVars, genVars, pureVars, processInterval>>

\* the awaited processor rejects: the catch block of processNext
ProcessorRejects(request) ==
  /\ request \in inflight
  /\ inflight' = inflight \ {request}
  /\ anyFailed' = TRUE
  /\ IF request.retryCount < maxRetries
     THEN /\ queue' = <<[request EXCEPT !.retryCount = @ + 1]>> \o queue
          /\ tasks' = [tasks EXCEPT ![request.id].status = "pending"]
     ELSE /\ tasks' = settle(tasks, request.id, "rejected", "retries", maxRetries)
          /\ UNCHANGED queue
  /\ UNCHANGED <<now, cacheVars, rlVars, keyVars, retryVars, genVars, pureVars, processInterval>>

StopProcessing ==
  /\ processInterval
  /\ processInterval' = FALSE
  /\ UNCHANGED <<now, cacheVars, rlVars, keyVars, retryVars, genVars, pureVars, queue, inflight,
                 tasks, anyFailed>>

rejectAll_Silent(ts, q) == ts

RECURSIVE rejectAll_Resolves(_, _)
rejectAll_Resolves(ts, q) ==
  IF q = <<>> THEN ts
  ELSE rejectAll_Resolves(settle(ts, Head(q).id, "resolved", "none", 0), Tail(q))

RECURSIVE rejectAll(_, _)
rejectAll(ts, q) ==
  IF q = <<>> THEN ts
  ELSE rejectAll(settle(ts, Head(q).id, "rejected", "cleared", 0), Tail(q))

ClearQueue_KeepsQueue ==
  /\ tasks' = rejectAll(tasks, queue)
  /\ UNCHANGED <<now, cacheVars, rlVars, keyVars, retryVars, genVars, pureVars, queue, inflight,
                 processInterval, anyFailed>>

ClearQueue ==
  /\ tasks' = rejectAll(tasks, queue)
  /\ queue' = <<>>
  /\ UNCHANGED <<now, cacheVars, rlVars, keyVars, retryVars, genVars, pureVars, inflight,
                 processInterval, anyFailed>>

InitQueue ==
  /\ queue = <<>>
  /\ inflight = {}
  /\ processInterval = TRUE
  /\ tasks = [i \in TaskIds |-> NewTask]
  /\ anyFailed = FALSE

QueueNext ==
  \/ \E p \in UserPriorities : Enqueue(p)
  \/ EnqueuePriority
  \/ ProcessNext
  \/ \E r \in inflight : ProcessorResolves(r)
  \/ \E r \in inflight : ProcessorRejects(r)
  \/ StopProcessing
  \/ ClearQueue

\* The queue while the timer is left running: stopProcessing is not called,
\* and MaxLiveTasks requests arrive.
EnqueueWhileRunning(priority) ==
  /\ NextId <= MaxLiveTasks
  /\ Enqueue(priority)

ProcessorSettles ==
  \E r \in inflight : ProcessorResolves(r) \/ ProcessorRejects(r)

QueueLiveNext ==
  \/ \E p \in UserPriorities : EnqueueWhileRunning(p)
  \/ EnqueueWhileRunning(adminPriority)
  \/ ProcessNext
  \/ ProcessorSettles
  \/ ClearQueue

(***************************************************************************)
(* generateImage and processImageGeneration (src/services/ApiService.ts)   *)
(* on the module's imageCache, rateLimiter and requestQueue. The provider  *)
(* call and the Firebase save are awaited; the rest of a segment runs      *)
(* without interruption.                                                   *)
(***************************************************************************)
undefined == "undefined"

\* one prompt, asked by two identities under two service names
Prompts == {"a"}

GenUsers == {"u1", undefined}

Services == {"pollinations-flux", "gemini-imagen"}

\* String.charCodeAt over the strings of the model
charCodes(str) ==
  CASE str = "a"  -> <<97>>
    [] str = "u1" -> <<117, 49>>
    [] str = "|"  -> <<124>>

\* components.join('|')
RECURSIVE join(_)
join(components) ==
  IF Len(components) = 1 THEN charCodes(Head(components))
  ELSE charCodes(Head(components)) \o charCodes("|") \o join(Tail(components))

\* the loop of simpleHash; the strings of the model are too short for the
\* truncation to 32 bits to change the sum
RECURSIVE hashLoop(_, _)
hashLoop(hash, codes) ==
  IF codes = <<>> THEN hash
  ELSE hashLoop(((hash * 32) - hash) + Head(codes), Tail(codes))

\* Number.toString(36), as the sequence of digits
RECURSIVE toString36(_)
toString36(n) ==
  IF n < 36 THEN <<n>> ELSE Append(toString36(n \div 36), n % 36)

simpleHash(codes) ==
  LET hash == hashLoop(0, codes) IN
  toString36(IF hash < 0 THEN -hash ELSE hash)

generateKey(prompt, imageData, userId) ==
  simpleHash(join(<<prompt>>
                  \o (IF imageData # undefined THEN <<imageData>> ELSE <<>>)
                  \o (IF userId # undefined THEN <<userId>> ELSE <<>>)))

\* service.includes('gemini') ? 10 : 0
priorityOf(service) == IF service = "gemini-imagen" THEN 10 ELSE 0

\* the generateImage model makes one call more than the rate limiter lets one
\* identity make in a window, and follows as many generations as one identity
\* gets through in a window
MaxGenCalls == maxRequests + 1

MaxGenTasks == maxRequests

NoProc ==
  [stage |-> "none", prompt |-> Null, service |-> Null, userId |-> Null,
   cacheKey |-> <<>>, imageData |-> Null, saved |-> "no"]

GenRet(prompt, service, userId, outcome, result) ==
  [prompt |-> prompt, service |-> service, userId |-> userId,
   outcome |-> outcome, result |-> result]

\* generateImage up to its return, throw or the enqueue it awaits
GenerateImage(prompt, service, userId) ==
  LET info    == checkLimit(userLimits, userId, now)
      rec     == recordRequest(info.limits, userId, now)
      limited == userId # undefined /\ (info.blocked \/ ~rec.ok)
      cacheKey == generateKey(prompt, undefined, userId)
      cached  == get(cache, currentSize, cacheKey, now)
      id      == NextId
      request == [id |-> id, priority |-> priorityOf(service), retryCount |-> 0]
  IN
  /\ genCalls < MaxGenCalls
  /\ genCalls' = genCalls + 1
  /\ IF limited
     THEN /\ userLimits' = IF info.blocked THEN info.limits ELSE rec.limits
          /\ gret' = GenRet(prompt, service, userId, "rateLimited", Null)
          /\ UNCHANGED <<cache, currentSize, queue, tasks, proc, hitPairs>>
     ELSE /\ userLimits' = IF userId = undefined THEN userLimits ELSE rec.limits
          /\ cache' = cached.cache
          /\ currentSize' = cached.size
          /\ IF cached.val # Null
             THEN /\ gret' = GenRet(prompt, service, userId, "hit", cached.val)
                  /\ hitPairs' = hitPairs \cup {<<prompt, userId>>}
                  /\ UNCHANGED <<queue, tasks, proc>>
             ELSE /\ id <= MaxGenTasks
                  /\ gret' = GenRet(prompt, service, userId, "queued", Null)
                  /\ queue' = insertAt(queue, findIndex(queue, request.priority), request)
                  /\ tasks' = [tasks EXCEPT ![id] = [@ EXCEPT !.status = "pending",
                                                              !.priority = request.priority]]
                  /\ proc' = [proc EXCEPT ![id] =
                                [stage |-> "provider", prompt |-> prompt,
                                 service |-> service, userId |-> userId,
                                 cacheKey |-> cacheKey, imageData |-> Null,
                                 saved |-> "no"]]
                  /\ UNCHANGED hitPairs
  /\ UNCHANGED <<now, cret, written, recency, rret, recent, lastRecorded, run,
                 keyVars, retryVars, pureVars, inflight, processInterval, anyFailed>>

\* the provider call of a processor rejects: processImageGeneration rethrows
\* and the queue's catch block runs
GenProviderFails(request) ==
  /\ proc[request.id].stage = "provider"
  /\ ProcessorRejects(request)

\* request.resolve(result) once processImageGeneration has returned
Returned(request, imageData, saved) ==
  /\ inflight' = inflight \ {request}
  /\ tasks' = settle(tasks, request.id, "resolved", "none", 0)
  /\ proc' = [proc EXCEPT ![request.id] =
                [@ EXCEPT !.stage = "returned", !.imageData = imageData,
                          !.saved = saved]]

\* the provider call resolves with imageData (after the optional optimizer):
\* the result is cached, and the processor either awaits the Firebase save
\* (a userId is given and Firebase is initialized) or returns
GenProviderReturns(request, imageData, saves) ==
  LET r == set(cache, currentSize, proc[request.id].cacheKey, imageData, now) IN
  /\ request \in inflight
  /\ proc[request.id].stage = "provider"
  /\ saves => proc[request.id].userId # undefined
  /\ cache' = r.cache
  /\ currentSize' = r.size
  /\ IF saves
     THEN /\ proc' = [proc EXCEPT ![request.id] =
                        [@ EXCEPT !.stage = "saving", !.imageData = imageData]]
          /\ UNCHANGED <<inflight, tasks>>
     ELSE Returned(request, imageData, "no")
  /\ UNCHANGED <<now, cret, written, recency, rlVars, keyVars, retryVars, pureVars, queue,
                 processInterval, anyFailed, gret, genCalls, hitPairs>>

GenSaveSettles_Rethrows(request, failed) ==
  /\ request \in inflight
  /\ proc[request.id].stage = "saving"
  /\ IF failed
     THEN /\ inflight' = inflight \ {request}
          /\ tasks' = settle(tasks, request.id, "rejected", "retries", 0)
          /\ proc' = [proc EXCEPT ![request.id] =
                        [@ EXCEPT !.stage = "returned", !.saved = "failed"]]
     ELSE Returned(request, proc[request.id].imageData, "yes")
  /\ UNCHANGED <<now, cacheVars, rlVars, keyVars, retryVars, pureVars, queue,
                 processInterval, anyFailed, gret, genCalls, hitPairs>>

\* the Firebase upload and save settle, resolved or rejected: a failure is
\* caught and logged, and the processor returns imageData; the auto-save is
\* started without await and its rejection is caught
GenSaveSettles(request, failed) ==
  /\ request \in inflight
  /\ proc[request.id].stage = "saving"
  /\ Returned(request, proc[request.id].imageData,
              IF failed THEN "failed" ELSE "yes")
  /\ UNCHANGED <<now, cacheVars, rlVars, keyVars, retryVars, pureVars, queue,
                 processInterval, anyFailed, gret, genCalls, hitPairs>>

GenTick ==
  /\ now < GenMaxTime
  /\ now' = now + 1
  /\ UNCHANGED <<cacheVars, rlVars, keyVars, restVars>>

InitGen ==
  /\ proc = [i \in TaskIds |-> NoProc]
  /\ gret = GenRet(Null, Null, Null, "new", Null)
  /\ genCalls = 0
  /\ hitPairs = {}

GenNext ==
  \/ \E p \in Prompts, s \in Services, u \in GenUsers : GenerateImage(p, s, u)
  \/ ProcessNext
  \/ \E r \in inflight : GenProviderFails(r)
  \/ \E r \in inflight, v \in Values, f \in BOOLEAN : GenProviderReturns(r, v, f)
  \/ \E r \in inflight, failed \in BOOLEAN : GenSaveSettles(r, failed)
  \/ GenTick

(***************************************************************************)
(* ApiKeyManager.isQuotaError (src/services/ApiService.ts)                 *)
(***************************************************************************)
\* an absent (undefined) field of an error is 0, which is falsy like it
absent == 0

\* error.code of a network error is a string such as 'ECONNRESET'
nonNumericCode == -1

StatusValues == {absent, 429, 500, 503}

CodeValues == {absent, nonNumericCode, 500}

StatusCodeValues == {absent, 500, 503}

ResponseStatusValues == {absent, 500}

Names == {"Error", "ThrottledError"}

Messages == {"", "Internal error", "Quota exceeded", "Service Unavailable: rate limit"}

Errors ==
  [name : Names, message : Messages, status : StatusValues, code : CodeValues,
   statusCode : StatusCodeValues, responseStatus : ResponseStatusValues]

quotaKeywords ==
  {"quota exceeded", "rate limit", "too many requests", "resource exhausted",
   "quota_exceeded", "rate_limit_exceeded", "user rate limit exceeded",
   "requests per minute exceeded", "daily limit exceeded",
   "billing quota exceeded", "api quota exceeded", "usage limit exceeded",
   "insufficient quota", "quota insufficient", "429", "throttled",
   "rate limited"}

\* String.toLowerCase over the strings of the model
toLowerCase(str) ==
  CASE str = "Error" -> "error"
    [] str = "ThrottledError" -> "throttlederror"
    [] str = "Internal error" -> "internal error"
    [] str = "Quota exceeded" -> "quota exceeded"
    [] str = "Service Unavailable: rate limit" -> "service unavailable: rate limit"
    [] OTHER -> str

\* String.includes over the strings of the model: the substrings of str
\* among the keywords
substringsOf(str) ==
  CASE str = "throttlederror" -> {"throttled"}
    [] str = "quota exceeded" -> {"quota exceeded"}
    [] str = "service unavailable: rate limit" -> {"rate limit"}
    [] OTHER -> {}

includes(str, keyword) == keyword \in substringsOf(str)

\* error.toString() is name + ': ' + message (the name alone for an empty
\* message); no keyword lies across the two parts
toStringIncludes(error, keyword) ==
  \/ includes(toLowerCase(error.name), keyword)
  \/ includes(toLowerCase(error.message), keyword)

\* a || b || c || d
firstTruthy(a, b, c, d) ==
  IF a # absent THEN a ELSE IF b # absent THEN b ELSE IF c # absent THEN c ELSE d

isQuotaError(error) ==
  LET errorMessage == toLowerCase(error.message)
      statusCode == firstTruthy(error.status, error.code, error.statusCode,
                                error.responseStatus)
      hasQuotaKeyword == \E keyword \in quotaKeywords :
                           \/ includes(errorMessage, keyword)
                           \/ toStringIncludes(error, keyword)
      hasQuotaStatus == statusCode = 429
  IN IF statusCode = 500 THEN FALSE ELSE hasQuotaKeyword \/ hasQuotaStatus

IsQuotaError(error) ==
  /\ classified' = [error |-> error, result |-> isQuotaError(error)]
  /\ UNCHANGED <<now, cacheVars, rlVars, keyVars, retryVars, queueVars, genVars,
                 optimized>>

InitClassify ==
  classified = [error |-> [name |-> "Error", message |-> "", status |-> absent,
                           code |-> absent, statusCode |-> absent,
                           responseStatus |-> absent],
                result |-> FALSE]

ClassifyNext == \E error \in Errors : IsQuotaError(error)

(***************************************************************************)
(* ResponseOptimizer.optimizeImage (src/unnamed/part_001)                  *)
(***************************************************************************)
\* typeof imageData / instanceof: a base64 data URL, a File, a Blob, or
\* anything else
DataKinds == {"string", "File", "Blob", "other"}

\* maxSizeMB * 1024 * 1024, scaled down
optMaxSize == 3

DataSizes == 1..(2 * optMaxSize)

\* an argument of optimizeImage: for a string, whether atob accepts its
\* payload, and the size of the decoded image
ImageData ==
  {d \in [kind : DataKinds, validBase64 : BOOLEAN, size : DataSizes] :
     d.kind # "string" => d.validBase64}

\* the awaited steps that can reject
FailingSteps == {"none", "imageCompression", "blobToBase64"}

\* base64ToBlob: atob throws on a payload that is not base64
base64ToBlob(base64) == [threw |-> ~base64.validBase64, size |-> base64.size]

Resolved(optimizedData, compressedSize) ==
  [settled |-> "resolved", optimizedData |-> optimizedData,
   compressedSize |-> compressedSize]

Rejected(imageData) ==
  [settled |-> "rejected", optimizedData |-> imageData, compressedSize |-> 0]

\* the catch block: originalSize is computed with base64ToBlob again
optimizeImageCatch(imageData) ==
  IF imageData.kind = "string" /\ base64ToBlob(imageData).threw
  THEN Rejected(imageData)
  ELSE Resolved(imageData, 0)

\* optimizeImage, with the step that fails and the size imageCompression
\* reaches
optimizeImage(imageData, failing, compressedSize) ==
  IF \/ imageData.kind = "string" /\ base64ToBlob(imageData).threw
     \/ imageData.kind = "other"
  THEN optimizeImageCatch(imageData)
  ELSE IF imageData.size <= optMaxSize
  THEN Resolved(imageData, imageData.size)
  ELSE IF failing = "imageCompression"
  THEN optimizeImageCatch(imageData)
  ELSE IF imageData.kind = "string" /\ failing = "blobToBase64"
  THEN optimizeImageCatch(imageData)
  ELSE Resolved([kind |-> IF imageData.kind = "string" THEN "string" ELSE "File",
                 validBase64 |-> TRUE, size |-> compressedSize],
                compressedSize)

OptimizeImage(imageData, failing, compressedSize) ==
  /\ optimized' = [called |-> TRUE, imageData |-> imageData, failing |-> failing,
                   result |-> optimizeImage(imageData, failing, compressedSize)]
  /\ UNCHANGED <<now, cacheVars, rlVars, keyVars, retryVars, queueVars, genVars,
                 classified>>

InitOptimize ==
  optimized = [called |-> FALSE,
               imageData |-> [kind |-> "string", validBase64 |-> TRUE, size |-> 1],
               failing |-> "none",
               result |-> Resolved([kind |-> "string", validBase64 |-> TRUE,
                                    size |-> 1], 1)]

OptimizeNext ==
  \E imageData \in ImageData, failing \in FailingSteps,
     compressedSize \in 1..optMaxSize :
    OptimizeImage(imageData, failing, compressedSize)

(***************************************************************************)
(* Specifications                                                          *)
(***************************************************************************)
InitCache ==
  /\ cache = <<>>
  /\ currentSize = 0
  /\ cret = [op |-> "new", key |-> Null, val |-> Null, evicted |-> <<>>, purged |-> FALSE]
  /\ written = [k \in Keys |-> None]
  /\ recency = <<>>

Init ==
  /\ now = 1
  /\ InitCache
  /\ InitRL
  /\ InitKeys
  /\ InitRetry
  /\ InitQueue
  /\ InitGen
  /\ InitClassify
  /\ InitOptimize

CacheNext ==
  \/ \E k \in Keys, v \in CacheValues : CacheSet(k, v)
  \/ \E k \in Keys : CacheGet(k)
  \/ \E k \in Keys : CacheHas(k)
  \/ \E k \in Keys : CacheDelete(k)
  \/ CacheClear
  \/ CacheCleanup
  \/ CacheTick

SpecCache == Init /\ [][CacheNext]_vars

SpecRL == Init /\ [][RLNext]_vars

SpecKeys == Init /\ [][KeysNext]_vars

\* the retry loop on a pool of RetryNumKeys keys
InitRetryPool ==
  /\ now = 1
  /\ InitCache
  /\ InitRL
  /\ InitKeysWith(RetryNumKeys)
  /\ InitRetry
  /\ InitQueue
  /\ InitGen
  /\ InitClassify
  /\ InitOptimize

SpecRetry == InitRetryPool /\ [][RetryNext]_vars

\* the key manager with the quota errors of every key on record
InitQuotaWatch ==
  /\ now = 1
  /\ InitCache
  /\ InitRL
  /\ InitKeysWatching(NumKeys, 0..(NumKeys - 1))
  /\ InitRetry
  /\ InitQueue
  /\ InitGen
  /\ InitClassify
  /\ InitOptimize

SpecKeysQuota == InitQuotaWatch /\ [][KeysNext]_vars

SpecErrorRuns == Init /\ [][ErrorRunsNext]_vars

SpecQueue == Init /\ [][QueueNext]_vars

\* the timer keeps firing and an awaited processor settles
SpecQueueLive ==
  /\ Init
  /\ [][QueueLiveNext]_vars
  /\ WF_vars(ProcessNext)
  /\ WF_vars(ProcessorSettles)

SpecGen == Init /\ [][GenNext]_vars

SpecClassify == Init /\ [][ClassifyNext]_vars

SpecOptimize == Init /\ [][OptimizeNext]_vars

\* callers keep asking for a key (the retry loop of makeRequestWithRetry calls
\* getCurrentKey again after every sleep) and the clock keeps running
SpecKeysLive ==
  /\ Init
  /\ [][KeysLiveNext]_vars
  /\ WF_vars(KeysLiveTick)
  /\ WF_vars(GetCurrentKey)

(***************************************************************************)
(* Cache claims                                                            *)
(***************************************************************************)

\* C1: after every cache operation the tracked currentSize equals the sum of
\* the sizes of the stored entries, and at most maxEntries entries are stored.
C1_SizeAndCountAccounting ==
  /\ currentSize = SumSizes(cache)
  /\ Len(cache) <= maxEntries

\* a set that had to evict and left the cache full
C1_Witness ==
  /\ cret.op = "set"
  /\ cret.evicted # <<>>
  /\ Len(cache) = maxEntries
  /\ currentSize > 0

\* C2: a get or has on a key whose entry is older than the TTL (time since its
\* last set) is never a hit, and the call removes the entry.
C2_StaleNeverHit ==
  [][\A k \in Keys :
       ( /\ now' = now
         /\ cret'.op \in {"get", "has"}
         /\ cret'.key = k
         /\ written[k] # None
         /\ now - written[k].time > ttlMs )
       => ( /\ cret'.val \in {Null, "false"}
            /\ \A i \in 1..Len(cache') : cache'[i].key # k )]_vars

\* a get or has has just purged an expired entry while others stay stored
C2_Witness ==
  /\ cret.op \in {"get", "has"}
  /\ cret.purged
  /\ cret.val \in {Null, "false"}
  /\ cache # <<>>

\* C3: get(k) returns the value of the last set(k) as long as that entry is
\* within its TTL and has not been evicted, deleted or cleared.
C3_GetAfterSet ==
  [][\A k \in Keys :
       ( /\ now' = now
         /\ cret'.op = "get"
         /\ cret'.key = k
         /\ written[k] # None
         /\ now - written[k].time <= ttlMs )
       => cret'.val = written[k].val]_vars

\* a get at the last moment of the TTL that returned the value set
C3_Witness ==
  /\ cret.op = "get"
  /\ cret.val \in Values
  /\ written[cret.key] # None
  /\ cret.val = written[cret.key].val
  /\ now - written[cret.key].time = ttlMs
  /\ \E i \in 1..Len(cache) : cache[i].key = cret.key /\ cache[i].lastAccessed = now

\* C4: when set of a new key finds maxEntries entries stored, the entry it
\* evicts is the one whose last use by get or set lies furthest back.
C4_EvictsLeastRecentlyUsed ==
  [][( /\ now' = now
       /\ cret'.op = "set"
       /\ \A i \in 1..Len(cache) : cache[i].key # cret'.key
       /\ Len(cache) = maxEntries
       /\ cret'.evicted # <<>> )
     => cret'.evicted[1] = recency[1]]_vars

\* the cache would be within both limits with the entry of k replaced by v
FitsReplaced(k, v) ==
  /\ k \in KeysOf(cache)
  /\ Len(cache) <= maxEntries
  /\ currentSize - cache[IndexOf(cache, k)].size + calculateSize(v) <= maxSize

\* C34: a set on a key that is stored, when the cache with the old value
\* replaced by the new one is within maxEntries and maxSize, leaves exactly
\* one entry for that key and every other entry in place.
C34_ReplaceEvictsNothing ==
  [][\A k \in Keys, v \in CacheValues :
       (CacheSet(k, v) /\ FitsReplaced(k, v))
       => /\ Cardinality({i \in 1..Len(cache') : cache'[i].key = k}) = 1
          /\ KeysOf(cache) \subseteq KeysOf(cache')]_vars

\* C35: after every set, whatever the size of the value, the tracked
\* currentSize is at most maxSize.
C35_SizeWithinMax ==
  cret.op = "set" => currentSize <= maxSize

(***************************************************************************)
(* Rate limiter claims                                                     *)
(***************************************************************************)
IsBlocked(ul, u, t) == ul[u] # None /\ t < ul[u].blockUntil

StoredInWindow(u) ==
  IF userLimits[u] = None THEN 0
  ELSE Cardinality({i \in 1..Len(userLimits[u].requests) :
                      userLimits[u].requests[i] > now - windowMs})

\* C5: for an identity without history, the first maxRequests recordRequest
\* calls within one window return true, the next call within that window
\* returns false, and until the block ends the identity's blockUntil, also as
\* reported by checkLimit, is the time of that rejected call plus
\* blockDurationMs.
C5_BlockAfterWindowFull ==
  \A u \in Users :
    run[u].clean =>
      LET c == run[u].calls
          n == maxRequests + 1
      IN
      /\ \A i \in 1..Len(c) :
           (i <= maxRequests /\ c[i].t - c[1].t < windowMs) => c[i].ok
      /\ (Len(c) = n /\ c[n].t - c[1].t < windowMs) =>
           /\ ~c[n].ok
           /\ now < c[n].t + blockDurationMs =>
                /\ userLimits[u] # None
                /\ userLimits[u].blockUntil = c[n].t + blockDurationMs
                /\ (rret.op = "checkLimit" /\ rret.user = u) =>
                     (rret.blocked /\ rret.blockUntil = c[n].t + blockDurationMs)

\* a checkLimit made later than the rejected call, before the block ends
C5_Witness ==
  \E u \in Users :
    /\ run[u].clean
    /\ Len(run[u].calls) = maxRequests + 1
    /\ run[u].calls[maxRequests + 1].t - run[u].calls[1].t < windowMs
    /\ ~run[u].calls[maxRequests + 1].ok
    /\ rret.op = "checkLimit" /\ rret.user = u /\ rret.blocked
    /\ now > run[u].calls[maxRequests + 1].t

\* C6: per identity, at most maxRequests accepted recordRequest calls lie in
\* any trailing window (counted since the last administrative override), and
\* the stored timestamp list never holds more than maxRequests entries.
C6_WindowNeverExceeded ==
  \A u \in Users :
    /\ Len(recent[u]) <= maxRequests
    /\ userLimits[u] # None => Len(userLimits[u].requests) <= maxRequests

\* a request rejected while the window holds maxRequests accepted requests
C6_Witness ==
  \E u \in Users :
    /\ Len(recent[u]) = maxRequests
    /\ rret.op = "recordRequest" /\ rret.user = u /\ ~rret.ok

\* C7: while an identity is blocked, every step other than an administrative
\* override of that identity leaves its blockUntil unchanged, and every
\* checkLimit and recordRequest for it is rejected.
C7_BlockNotExtended ==
  [][\A u \in Users :
       ( /\ userLimits[u] # None
         /\ now < userLimits[u].blockUntil
         /\ ~(rret'.op \in {"resetUser", "bypassLimit"} /\ rret'.user = u) )
       => /\ userLimits'[u] # None
          /\ userLimits'[u].blockUntil = userLimits[u].blockUntil
          /\ (rret'.op \in {"checkLimit", "recordRequest"} /\ rret'.user = u)
               => (rret'.blocked /\ ~rret'.ok
                   /\ rret'.blockUntil = userLimits[u].blockUntil)]_vars

\* a call rejected at a later time than the one at which the block began
C7_Witness ==
  \E u \in Users :
    /\ rret.op \in {"checkLimit", "recordRequest"} /\ rret.user = u
    /\ rret.blocked
    /\ userLimits[u] # None
    /\ userLimits[u].blockUntil = rret.blockUntil
    /\ now < userLimits[u].blockUntil
    /\ now > userLimits[u].blockUntil - blockDurationMs

\* C8 as claimed: an identity becomes blocked only by a check that finds its
\* trailing window full, and stops being blocked only when now >= blockUntil.
C8_OnlyTwoTransitions ==
  [][\A u \in Users :
       /\ (~IsBlocked(userLimits, u, now) /\ IsBlocked(userLimits', u, now'))
            => /\ rret'.op \in {"checkLimit", "recordRequest"}
               /\ rret'.user = u
               /\ StoredInWindow(u) >= maxRequests
       /\ (IsBlocked(userLimits, u, now) /\ ~IsBlocked(userLimits', u, now'))
            => now' >= userLimits[u].blockUntil]_vars

\* C8 as amended: an identity becomes blocked only by a check that finds its
\* trailing window full, and stops being blocked only when now >= blockUntil
\* or when resetUser or bypassLimit is applied to it.
C8_TransitionsWithOverrides ==
  [][\A u \in Users :
       /\ (~IsBlocked(userLimits, u, now) /\ IsBlocked(userLimits', u, now'))
            => /\ rret'.op \in {"checkLimit", "recordRequest"}
               /\ rret'.user = u
               /\ StoredInWindow(u) >= maxRequests
       /\ (IsBlocked(userLimits, u, now) /\ ~IsBlocked(userLimits', u, now'))
            => \/ now' >= userLimits[u].blockUntil
               \/ (rret'.op \in {"resetUser", "bypassLimit"} /\ rret'.user = u)]_vars

\* a block that has just run out by the passage of time
C8_Witness ==
  \E u \in Users :
    /\ rret.op = "tick"
    /\ userLimits[u] # None
    /\ userLimits[u].blockUntil # 0
    /\ now = userLimits[u].blockUntil

\* C9: the cleanup sweep never removes the state of an identity that is
\* blocked or whose last accepted request lies within the retention horizon.
C9_CleanupKeepsActive ==
  [][rret'.op = "cleanup" =>
       \A u \in Users :
         ( /\ userLimits[u] # None
           /\ \/ now < userLimits[u].blockUntil
              \/ (lastRecorded[u] # 0 /\ now - lastRecorded[u] <= retentionMs) )
         => userLimits'[u] # None]_vars

(***************************************************************************)
(* Key rotation claims                                                     *)
(***************************************************************************)

\* C10: consecutive getCurrentKey calls made while every key is available and
\* no recordError intervenes return a key each time, in cyclic order of the
\* pool positions, so any k * NumKeys consecutive calls return every key
\* exactly k times.
C10_RoundRobin ==
  /\ \A i \in 1..Len(streak) : streak[i] \in 0..(NumKeys - 1)
  /\ \A i \in 1..(Len(streak) - 1) : streak[i + 1] = (streak[i] + 1) % NumKeys
  /\ \A a, b \in 1..Len(streak) :
       (a <= b /\ (b - a + 1) % NumKeys = 0)
       => \A c \in 0..(NumKeys - 1) :
            Cardinality({i \in a..b : streak[i] = c}) = (b - a + 1) \div NumKeys

\* two full rounds that began in the middle of the pool, after a key had
\* failed and recovered
C10_Witness ==
  /\ Len(streak) = 2 * NumKeys
  /\ streak[1] # 0
  /\ errorsRecorded > 0
  /\ kret.op = "getCurrentKey"

\* C11: while exactly one key is quota-exhausted with its cooldown running
\* and every other key is available, consecutive getCurrentKey calls never
\* return the exhausted key, and over any run of such calls the numbers of
\* times two available keys were returned differ by at most 1.
C11_SkipsExhaustedFairly ==
  /\ \A i \in 1..Len(partial.picks) :
       /\ partial.picks[i] \in 0..(NumKeys - 1)
       /\ partial.picks[i] # partial.skipped
  /\ \A a, b \in 1..Len(partial.picks) :
       \A c, d \in (0..(NumKeys - 1)) \ {partial.skipped} :
         Cardinality({i \in a..b : partial.picks[i] = c})
           <= Cardinality({i \in a..b : partial.picks[i] = d}) + 1

\* two rounds over the remaining keys were made around the exhausted one
C11_Witness ==
  /\ partial.skipped # -1
  /\ Len(partial.picks) >= 2 * (NumKeys - 1)
  /\ kret.op = "getCurrentKey"
  /\ \E i \in 1..Len(keys) :
       keys[i].index = partial.skipped /\ keys[i].quotaExhausted

\* C12: getCurrentKey returns a key only if, after its recovery sweep, that
\* key is active, not quota-exhausted and past its nextAvailableTime, and it
\* returns none only if no key of the pool is in that condition.
C12_ReturnsAvailableOrNone ==
  kret.op = "getCurrentKey" =>
    IF kret.key # -1
    THEN \E i \in 1..Len(keys) :
           /\ keys[i].index = kret.key
           /\ keys[i].isActive
           /\ ~keys[i].quotaExhausted
           /\ now >= keys[i].nextAvailableTime
    ELSE \A i \in 1..Len(keys) :
           ~(keys[i].isActive /\ ~keys[i].quotaExhausted
                              /\ now >= keys[i].nextAvailableTime)

\* a call returned a key after passing over an unavailable one
C12_Witness ==
  /\ kret.op = "getCurrentKey"
  /\ kret.key # -1
  /\ \E i \in 1..Len(keys) :
       /\ keys[i].index = (kret.key + NumKeys - 1) % NumKeys
       /\ (~keys[i].isActive \/ keys[i].quotaExhausted)

\* C13: the pool never stays unavailable: when the clock keeps advancing and
\* recordError is no longer called, from every reachable state a later
\* getCurrentKey call returns a key.
C13_EventuallyReturnsKey ==
  []<>(kret.op = "getCurrentKey" /\ kret.key # -1)

\* every key is unavailable after the last error: one cooling down after a
\* server error, one quota-exhausted
C13_Witness ==
  /\ kret.op = "getCurrentKey"
  /\ kret.key = -1
  /\ errorsRecorded = MaxRecordedErrors
  /\ \E i \in 1..Len(keys) : ~keys[i].quotaExhausted /\ now < keys[i].nextAvailableTime
  /\ \E i \in 1..Len(keys) : keys[i].quotaExhausted

KeyWithIndex(i) == keys[PositionOf(keys, i)]

\* C31: plain errors take strictly more consecutive recordError calls to
\* deactivate a key than quota errors do: when the key that received only
\* plain errors is deactivated by its n-th error, the key that received only
\* quota errors is deactivated already after n - 1 errors.
C31_PlainThresholdHigher ==
  (/\ ~KeyWithIndex(plainRunKey).isActive
   /\ KeyWithIndex(quotaRunKey).errorCount + 1 = KeyWithIndex(plainRunKey).errorCount)
    => ~KeyWithIndex(quotaRunKey).isActive

\* C30: a key on which a quota error was recorded at time t is not returned
\* by getCurrentKey before t + quotaCooldown, whatever errors are recorded
\* on it afterwards, unless recordSuccess or the emergency reset came between.
C30_QuotaCooldownRespected ==
  (kret.op = "getCurrentKey" /\ kret.key \in DOMAIN quotaAt)
    => quotaAt[kret.key] = 0

(***************************************************************************)
(* Retry claims                                                            *)
(***************************************************************************)

C29_NeverGivesUpEarly ==
  \A c \in Calls :
    calls[c].pc = "rejected" =>
      \A k \in 0..(RetryNumKeys - 1) : calls[c].invocations[k] >= 1

\* C32: a makeRequestWithRetry call whose request function failed every time
\* rejects only after the request function was invoked at least twice with
\* every key of the pool.
C32_EveryKeyTwice ==
  \A c \in Calls :
    calls[c].pc = "rejected" =>
      \A k \in 0..(RetryNumKeys - 1) : calls[c].invocations[k] >= 2

\* C33: the error a makeRequestWithRetry call rejects with lists exactly the
\* key indices its request function was invoked with during the call, and
\* reports the status of every key.
C33_ErrorListsTriedAndStatuses ==
  \A c \in Calls :
    calls[c].pc = "rejected" =>
      /\ calls[c].error.tried =
           {k \in 0..(RetryNumKeys - 1) : calls[c].invocations[k] >= 1}
      /\ calls[c].error.statuses

\* number of times the request function of a call was invoked
RECURSIVE SumUpTo(_, _)
SumUpTo(f, n) == IF n < 0 THEN 0 ELSE f[n] + SumUpTo(f, n - 1)

Invocations(c) == SumUpTo(calls[c].invocations, RetryNumKeys - 1)

\* the passes the claim allows a call on the pool of RetryNumKeys keys
Budget == Max(2 * RetryNumKeys, retryConfigMaxRetries)

\* what is left of the budget of a call: two steps per remaining pass, the
\* invocation of the request function and the sleep that follows it
Remaining(rec) ==
  2 * (Budget - rec.attempt) + (IF rec.pc = "inflight" THEN 1 ELSE 0)

\* call c can take a step: its sleep can end or its request function settle
CanStep(c) ==
  ENABLED (RetryWake(c) \/ RetryOpSucceeds(c) \/ RetryOpFails(c, TRUE))

\* C37: every makeRequestWithRetry call ends, resolved or rejected, within
\* max(2N, maxRetries) passes of its loop: a call under way has
\* made fewer passes than that and can always take its next step, its request
\* function has been invoked at most once per pass, and every step of the call
\* settles it or uses up some of the passes left.
C37_TerminatesWithinBudget ==
  /\ [](\A c \in Calls :
          /\ UnderWay(calls[c]) => (calls[c].attempt < Budget /\ CanStep(c))
          /\ calls[c].attempt <= Budget
          /\ Invocations(c) <= Budget
          /\ UnderWay(calls[c]) => Invocations(c) <= calls[c].attempt + 1)
  /\ [][\A c \in Calls :
          (/\ UnderWay(calls[c])
           /\ <<calls'[c].pc, calls'[c].attempt>> # <<calls[c].pc, calls[c].attempt>>)
          => \/ calls'[c].pc \in {"resolved", "rejected"}
             \/ /\ UnderWay(calls'[c])
                /\ Remaining(calls'[c]) < Remaining(calls[c])]_vars

\* a call rejected by the throw after the loop, having used every pass, some
\* of them on waiting for a key
C37_Witness ==
  \E c \in Calls :
    /\ calls[c].pc = "rejected"
    /\ calls[c].attempt = Budget
    /\ Invocations(c) >= 1
    /\ Invocations(c) < Budget

(***************************************************************************)
(* Queue claims                                                            *)
(***************************************************************************)

\* the consumer takes the head of the queue and starts its processor
DequeueStep ==
  /\ queue # <<>>
  /\ queue' = Tail(queue)
  /\ inflight' = inflight \cup {Head(queue)}
  /\ inflight' # inflight

\* C15: as long as no processor has failed, every dequeue removes a pending
\* request of maximal priority and, among those of that priority, the one
\* that was enqueued first.
C15_PriorityThenArrival ==
  [][(DequeueStep /\ ~anyFailed) =>
       /\ \A j \in 1..Len(queue') : queue'[j].id # Head(queue).id
       /\ \A j \in 2..Len(queue) :
            \/ queue[j].priority < Head(queue).priority
            \/ /\ queue[j].priority = Head(queue).priority
               /\ queue[j].id > Head(queue).id]_vars

\* a request that arrived last was dequeued first for its priority, and the
\* two left behind wait in arrival order
C15_Witness ==
  /\ ~anyFailed
  /\ Len(queue) = 2
  /\ queue[1].priority = queue[2].priority
  /\ queue[1].id < queue[2].id
  /\ \E r \in inflight : r.priority > queue[1].priority /\ r.id > queue[2].id

\* C16: a request's retryCount never exceeds maxRetries and its processor is
\* invoked at most maxRetries + 1 times; once the (maxRetries + 1)-th
\* invocation has failed the request is rejected with an error that names
\* maxRetries, and it is neither pending nor in flight again.
C16_RetryBudget ==
  /\ \A j \in 1..Len(queue) : queue[j].retryCount <= maxRetries
  /\ \A r \in inflight : r.retryCount <= maxRetries
  /\ \A i \in 1..MaxTasks :
       /\ tasks[i].invoked <= maxRetries + 1
       /\ tasks[i].error = "retries" =>
            /\ tasks[i].status = "rejected"
            /\ tasks[i].retries = maxRetries
            /\ tasks[i].invoked = maxRetries + 1
            /\ \A j \in 1..Len(queue) : queue[j].id # i
            /\ \A r \in inflight : r.id # i
       /\ (tasks[i].invoked = maxRetries + 1 /\ tasks[i].status \notin {"inflight", "resolved"})
            => (tasks[i].status = "rejected" /\ tasks[i].error = "retries")

\* a request has failed maxRetries + 1 times and was rejected
C16_Witness ==
  \E i \in 1..MaxTasks :
    /\ tasks[i].error = "retries"
    /\ tasks[i].invoked = maxRetries + 1

\* C17: a request reinserted at the front after a failure is dequeued before
\* every request of equal priority that is new work: no request that was
\* never retried is dequeued while a retried request of its priority is
\* pending.
C17_RetryBeforeNewWork ==
  [][DequeueStep =>
       (Head(queue).retryCount = 0 =>
          \A j \in 2..Len(queue) :
            ~(queue[j].retryCount > 0 /\ queue[j].priority = Head(queue).priority))]_vars

\* C18: clearQueue rejects every pending request with 'Queue cleared' and
\* leaves the queue empty, and no step takes a request off the queue without
\* either starting its processor or settling its promise.
C18_ClearRejectsAll ==
  [][/\ (queue # <<>> /\ queue' = <<>> /\ inflight' = inflight) =>
          \A j \in 1..Len(queue) :
            /\ tasks'[queue[j].id].status = "rejected"
            /\ tasks'[queue[j].id].error = "cleared"
     /\ \A j \in 1..Len(queue) :
          (\A k \in 1..Len(queue') : queue'[k].id # queue[j].id) =>
             \/ \E r \in inflight' : r.id = queue[j].id
             \/ tasks'[queue[j].id].settles >= 1]_vars

\* two requests were pending when the queue was cleared
C18_Witness ==
  /\ queue = <<>>
  /\ \E i, j \in 1..MaxTasks :
       /\ i # j
       /\ tasks[i].error = "cleared"
       /\ tasks[j].error = "cleared"
       /\ tasks[j].invoked > 0

\* C19: a request enqueued with enqueuePriority is dequeued before every
\* pending request of normal priority: no request of a lower priority is
\* dequeued while a request of priority 1000 is pending.
C19_AdminFirst ==
  [][DequeueStep =>
       (Head(queue).priority < 1000 =>
          \A j \in 2..Len(queue) : queue[j].priority # 1000)]_vars


\* a generateImage call for this prompt and userId completed successfully
\* earlier: its processor returned, or it returned a cached result
CompletedBefore(prompt, userId) ==
  \/ <<prompt, userId>> \in hitPairs
  \/ \E i \in TaskIds : /\ tasks[i].status = "resolved"
                        /\ proc[i].prompt = prompt
                        /\ proc[i].userId = userId

\* the imageCache holds an entry for this prompt and userId that has not
\* outlived its TTL
StillCached(prompt, userId) ==
  \E i \in 1..Len(cache) : /\ cache[i].key = generateKey(prompt, undefined, userId)
                           /\ now - cache[i].timestamp <= ttlMs

CachedValue(prompt, userId) ==
  cache[CHOOSE i \in 1..Len(cache) :
          cache[i].key = generateKey(prompt, undefined, userId)].value

\* C20: a generateImage call whose prompt and userId match an earlier call
\* that completed successfully, made while the cached entry is still there
\* and within its TTL and the caller is not rate-limited, returns the cached
\* result: nothing is queued and no provider is invoked.
C20_RepeatServedFromCache ==
  [][(/\ genCalls' = genCalls + 1
      /\ CompletedBefore(gret'.prompt, gret'.userId)
      /\ StillCached(gret'.prompt, gret'.userId)
      /\ gret'.outcome # "rateLimited")
     => (/\ gret'.outcome = "hit"
         /\ gret'.result = CachedValue(gret'.prompt, gret'.userId)
         /\ queue' = queue
         /\ inflight' = inflight
         /\ tasks' = tasks)]_vars

\* a second call for a prompt and user whose first call went through a
\* provider was answered from the cache, under another service name
C20_Witness ==
  /\ gret.outcome = "hit"
  /\ gret.userId = "u1"
  /\ <<gret.prompt, gret.userId>> \in hitPairs
  /\ \E i \in TaskIds : /\ tasks[i].status = "resolved"
                        /\ tasks[i].invoked = 1
                        /\ proc[i].prompt = gret.prompt
                        /\ proc[i].userId = gret.userId
                        /\ proc[i].service # gret.service
                        /\ proc[i].imageData = gret.result


\* the identity is rate-limited: its block is running, or its window holds
\* maxRequests requests
RateLimited(u) ==
  u \in Users /\ (IsBlocked(userLimits, u, now) \/ StoredInWindow(u) >= maxRequests)

\* C21: a generateImage call by a rate-limited identity is rejected with the
\* rate-limit error; it enqueues nothing, starts no provider call and leaves
\* the cache alone.
C21_RateLimitedNeverQueued ==
  [][(genCalls' = genCalls + 1 /\ RateLimited(gret'.userId))
     => (/\ gret'.outcome = "rateLimited"
         /\ queue' = queue
         /\ inflight' = inflight
         /\ tasks' = tasks
         /\ proc' = proc
         /\ cache' = cache)]_vars

\* a rate-limited identity was rejected although the cache held a fresh entry
\* for its prompt
C21_Witness ==
  /\ gret.outcome = "rateLimited"
  /\ gret.userId = "u1"
  /\ IsBlocked(userLimits, "u1", now)
  /\ StillCached(gret.prompt, gret.userId)
  /\ \E i \in TaskIds : tasks[i].status = "resolved" /\ proc[i].userId = "u1"


\* C27: enqueue places the new request after every waiting request of equal
\* or higher priority and before every waiting request of lower priority.
C27_EnqueuePlacement ==
  [][\A id \in TaskIds :
       (tasks[id].status = "new" /\ tasks'[id].status = "pending") =>
         \E k \in 1..Len(queue') :
           /\ queue'[k].id = id
           /\ \A j \in 1..Len(queue') :
                /\ j < k => queue'[j].priority >= queue'[k].priority
                /\ j > k => queue'[j].priority < queue'[k].priority]_vars

\* the state of a request in the terms of the state machine: a waiting
\* request is RETRY_PENDING once its retryCount is above 0
TaskState(ts, q, id) ==
  CASE ts[id].status = "new"      -> "NONE"
    [] ts[id].status = "inflight" -> "IN_FLIGHT"
    [] ts[id].status = "resolved" -> "SETTLED_SUCCESS"
    [] ts[id].status = "rejected" -> "SETTLED_FAILURE"
    [] ts[id].status = "pending"  ->
         IF \E k \in 1..Len(q) : q[k].id = id /\ q[k].retryCount > 0
         THEN "RETRY_PENDING" ELSE "PENDING"

ListedTransitions ==
  {<<"NONE", "PENDING">>,
   <<"PENDING", "IN_FLIGHT">>,
   <<"IN_FLIGHT", "SETTLED_SUCCESS">>,
   <<"IN_FLIGHT", "RETRY_PENDING">>,
   <<"RETRY_PENDING", "IN_FLIGHT">>,
   <<"IN_FLIGHT", "SETTLED_FAILURE">>}

ClearTransitions ==
  {<<"PENDING", "SETTLED_FAILURE">>, <<"RETRY_PENDING", "SETTLED_FAILURE">>}

\* C28 as stated: a request only moves from PENDING to IN_FLIGHT, from
\* IN_FLIGHT to SETTLED(success), RETRY_PENDING or SETTLED(failure), and from
\* RETRY_PENDING to IN_FLIGHT.
C28_OnlyListedTransitions ==
  [][\A id \in TaskIds :
       LET from == TaskState(tasks, queue, id)
           to   == TaskState(tasks', queue', id)
       IN from # to => <<from, to>> \in ListedTransitions]_vars

\* C28 amended: besides the listed transitions, clearQueue moves every
\* waiting request, PENDING or RETRY_PENDING, to SETTLED(failure), and no
\* other step does.
C28_TransitionsWithClear ==
  [][\A id \in TaskIds :
       LET from == TaskState(tasks, queue, id)
           to   == TaskState(tasks', queue', id)
       IN from # to =>
            \/ <<from, to>> \in ListedTransitions
            \/ /\ <<from, to>> \in ClearTransitions
               /\ queue # <<>> /\ queue' = <<>>
               /\ \A k \in 1..Len(queue) :
                    tasks'[queue[k].id].status = "rejected"]_vars

\* clearQueue has rejected a request that was waiting for a retry and one
\* that had never been started
C28_Witness ==
  \E i, j \in TaskIds :
    /\ tasks[i].status = "rejected" /\ tasks[i].error = "cleared"
    /\ tasks[i].invoked > 0
    /\ tasks[j].status = "rejected" /\ tasks[j].error = "cleared"
    /\ tasks[j].invoked = 0

\* C23: at most one dequeued request is in flight (its processor started and
\* neither settled nor put back) at any time.
C23_SingleInFlight == Cardinality(inflight) <= 1

\* C25: when the persistence of a generated image fails, the request is
\* still resolved with the image, never rejected, and the cache keeps the
\* result.
C25_PersistenceFailureSwallowed ==
  [][\A i \in TaskIds :
       (proc[i].stage = "saving" /\ proc'[i].saved = "failed")
       => (/\ tasks'[i].status = "resolved"
           /\ proc'[i].imageData = proc[i].imageData
           /\ proc'[i].stage = "returned"
           /\ cache' = cache)]_vars

\* a request whose save failed is resolved, and its image is in the cache
C25_Witness ==
  \E i \in TaskIds :
    /\ proc[i].saved = "failed"
    /\ tasks[i].status = "resolved"
    /\ tasks[i].settles = 1
    /\ \E k \in 1..Len(cache) : /\ cache[k].key = proc[i].cacheKey
                                /\ cache[k].value = proc[i].imageData

\* the generation of request i has stored its result in the cache
Stored(i) == proc[i].stage \in {"saving", "returned"}

\* C36: generateImage returns a cached result only to a call whose prompt,
\* identity and service are those of a generation that stored a result; calls
\* that differ in the service never share an entry.
C36_HitOnlyForSameContent ==
  gret.outcome = "hit" =>
    \E i \in TaskIds :
      /\ Stored(i)
      /\ proc[i].prompt = gret.prompt
      /\ proc[i].userId = gret.userId
      /\ proc[i].service = gret.service

\* C26: the response does not wait for the persistence: whenever the save of
\* a generated image is still outstanding, the request is already resolved.
C26_ResponseBeforePersistence ==
  \A i \in TaskIds : proc[i].stage = "saving" => tasks[i].status = "resolved"

\* the ids of the requests waiting in the queue or being processed
Held == {queue[k].id : k \in 1..Len(queue)} \cup {r.id : r \in inflight}

\* C38: the promise of a task is settled at most once, whatever the order of
\* timer ticks, processor completions, retries and clearQueue calls: resolve
\* and reject are called at most once per task between them, and a settled
\* task is neither waiting in the queue nor being processed.
C38_SettledAtMostOnce ==
  \A i \in TaskIds :
    /\ tasks[i].settles <= 1
    /\ tasks[i].settles = 1 <=> tasks[i].status \in {"resolved", "rejected"}
    /\ tasks[i].settles = 1 => i \notin Held

\* a task that was retried and then rejected by clearQueue, beside one that
\* resolved and one that is being processed
C38_Witness ==
  /\ \E i \in TaskIds : /\ tasks[i].status = "rejected"
                         /\ tasks[i].error = "cleared"
                         /\ tasks[i].invoked >= 1
  /\ \E i \in TaskIds : tasks[i].status = "resolved"
  /\ inflight # {}

\* C39: while the timer keeps running, every processor settles and finitely
\* many requests are enqueued, the promise of every enqueued request is
\* eventually resolved or rejected.
C39_EveryTaskSettles ==
  \A i \in TaskIds :
    (tasks[i].status \in {"pending", "inflight"})
      ~> (tasks[i].status \in {"resolved", "rejected"})

\* a request waits for its last retry behind another one that is in flight
C39_Witness ==
  /\ processInterval
  /\ inflight # {}
  /\ \E k \in 1..Len(queue) : queue[k].retryCount = maxRetries

\* the timestamps stored for identity u
StoredRequests(ul, u) == IF ul[u] = None THEN <<>> ELSE ul[u].requests

\* C40: a generateImage call made with an identity and not rejected by the
\* rate limiter leaves the identity's window as it was, without the
\* timestamps that have left the window, plus one timestamp, that of the
\* call, whether it returns a cached result or enqueues a request; the
\* checkLimit call it starts with adds no timestamp.
C40_OneTimestampPerCall ==
  [][\A u \in GenUsers \ {undefined} :
       (/\ genCalls' = genCalls + 1
        /\ gret'.userId = u
        /\ gret'.outcome \in {"hit", "queued"})
       => /\ StoredRequests(userLimits', u)
               = Append(InWindow(StoredRequests(userLimits, u), now), now)
          /\ StoredRequests(checkLimit(userLimits, u, now).limits, u)
               = InWindow(StoredRequests(userLimits, u), now)]_vars

\* a call that was served from the cache and one that was enqueued have
\* each left a timestamp, none of them from the first tick
C40_Witness ==
  /\ gret.outcome = "hit"
  /\ gret.userId = "u1"
  /\ \E i \in TaskIds : proc[i].userId = "u1" /\ proc[i].stage # "none"
  /\ Len(userLimits["u1"].requests) >= 2
  /\ userLimits["u1"].requests[1] > 1

(***************************************************************************)
(* isQuotaError claims                                                     *)
(***************************************************************************)
\* C22: isQuotaError returns false for every error whose status is a
\* server-fault code (500 to 599), whatever its message says.
C22_ServerFaultNeverQuota ==
  classified.error.status \in 500..599 => ~classified.result


(***************************************************************************)
(* optimizeImage claims                                                    *)
(***************************************************************************)
\* a step of the call failed: the conversion of the argument, the
\* compression, or the conversion back to base64
StepFailed ==
  \/ optimized.imageData.kind = "string" /\ ~optimized.imageData.validBase64
  \/ optimized.imageData.kind = "other"
  \/ /\ optimized.imageData.kind # "other"
     /\ optimized.imageData.size > optMaxSize
     /\ \/ optimized.failing = "imageCompression"
        \/ optimized.failing = "blobToBase64" /\ optimized.imageData.kind = "string"

\* C24: optimizeImage never rejects, and when one of its steps fails it
\* resolves with the payload it was given.
C24_OptimizerNeverRejects ==
  optimized.called =>
    /\ optimized.result.settled = "resolved"
    /\ StepFailed => optimized.result.optimizedData = optimized.imageData

====
